---- MODULE Spec2Model ----
(***************************************************************************)
(* State-machine model of the Editor / Workbench event handlers of         *)
(* src/src/main.rs (raw_window_event and update).                          *)
(*                                                                         *)
(* Number representation.  The program computes in f32; the model computes *)
(* in exact fixed point / rational arithmetic:                             *)
(*   - scale is held in quarters          (1.75 is 7, the range is 4..400) *)
(*   - brush_size is held in halves       (1.0 is 2, the range is 2..200)  *)
(*   - screen coordinates (mouse, rect, offset) are held in half pixels    *)
(*   - a sub-pixel bitmap point (mousef, last_mouse) is a record           *)
(*     [x, y, d] standing for (x/d, y/d), d > 0, in lowest terms           *)
(* Inputs are chosen so that every value of the coordinate transform and   *)
(* of the opacity stays representable; f32 rounding error is therefore not *)
(* modelled there.  The blend of a pixel is computed in f32 bit for bit,   *)
(* as Rgba<u8>::blend computes it (see F32Round and Blend).                *)
(***************************************************************************)
EXTENDS Integers, Naturals, Sequences, FiniteSets, TLC

VARIABLES
    scale,          \* GlobalState.scale, in quarters
    brush_size,     \* GlobalState.brush_size, in halves
    mode,           \* GlobalState.mode: "Move" or "Paint"
    last_mouse,     \* GlobalState.last_mouse: None or Some(sub-pixel point)
    offset,         \* EditorState.offset, half pixels
    selected,       \* EditorState.selected
    pixels,         \* EditorState.pixels: the pixels that differ from the fill
    rect,           \* EditorState.rect: centre x, y and size w, h, half pixels
    mouse,          \* app.mouse position, half pixels
    editor_first,   \* iteration order of model.windows.values_mut() in update
    panicked,       \* a handler has panicked: the process is gone
    steps           \* number of events and updates handled so far

vars == <<scale, brush_size, mode, last_mouse, offset, selected, pixels,
          rect, mouse, editor_first, panicked, steps>>

-----------------------------------------------------------------------------
(* Bounds of the exploration *)

\* events and updates handled in one behaviour
MaxSteps == 5
\* cursor-moves of the stroke in the brush exploration
MaxStrokeMoves == 1

(* Program constants *)

ImgWidth == 256
ImgHeight == 256
ScaleInit == 7
ScaleMin == 4
ScaleMax == 400
BrushInit == 2
BrushMin == 2
BrushMax == 200
MaxCoord == 255
MaxChannel == 255

\* Option: None, or Some(v)
None == << >>

Some(v) == <<v>>

(* Inputs: pointer positions (half pixels), scroll deltas, slider values *)
Points == { <<0, 0>>, <<7, 0>>, <<-448, 14>>, <<-1000, 0>> }
PixelDeltas == { -5, 1000 }
LineDeltas == { -10, 10 }
ScaleSliderValues == { ScaleMin, 8 }
BrushSliderValues == { BrushMin, 9 }

(* Inputs of the brush exploration: pointer positions of a stroke (half
   pixels), brush diameters (halves) and scales (quarters) *)
StrokePoints == { <<0, 0>>, <<4, 0>>, <<7, 0>>, <<8, -4>>, <<-6, 16>> }
StrokeBrushSizes == { BrushMin, 3, 5, 20 }
StrokeScales == { ScaleMin, 8 }

-----------------------------------------------------------------------------
(* Arithmetic helpers *)

Abs(n) == IF n < 0 THEN -n ELSE n

Min(a, b) == IF a < b THEN a ELSE b

Max(a, b) == IF a > b THEN a ELSE b

RECURSIVE GCD(_, _)
GCD(a, b) == IF b = 0 THEN Abs(a) ELSE GCD(b, a % b)

\* f32::round of n/d, d > 0: nearest integer, halves away from zero
Round(n, d) ==
    IF n >= 0 THEN (2 * n + d) \div (2 * d)
              ELSE -((2 * (-n) + d) \div (2 * d))

\* `as i32` of n/d, d > 0: truncation toward zero
Trunc(n, d) == IF n >= 0 THEN n \div d ELSE -((-n) \div d)

\* f32::clamp of a value v between lo and hi
Clamp(v, lo, hi) == IF v < lo THEN lo ELSE IF v > hi THEN hi ELSE v

\* floor(k * n / a) for 0 <= n <= a; by halving k where k * n would not
\* fit the checker's integers
RECURSIVE MulDivRem(_, _, _)
MulDivRem(k, n, a) ==
    IF k = 0 THEN <<0, 0>>
    ELSE LET h == MulDivRem(k \div 2, n, a)
             r == 2 * h[2] + (k % 2) * n
         IN  <<2 * h[1] + (r \div a), r % a>>

MulDivFloor(k, n, a) ==
    IF n <= 2000000000 \div (k + 1) THEN (k * n) \div a
    ELSE MulDivRem(k, n, a)[1]

-----------------------------------------------------------------------------
(* Coordinate transform: main.rs 204-214 *)

\* Rect::contains: both ranges include their ends
Contains(r, p) ==
    /\ 2 * Abs(p[1] - r.x) <= r.w
    /\ 2 * Abs(p[2] - r.y) <= r.h

\* mousef: (mouse - rect.xy()) / scale + (width, height) / 2, then the flip
\* of the vertical axis; the result is the sub-pixel point (x/d, y/d)
ScreenToBitmap(p, r, s) ==
    LET xn == 2 * (p[1] - r.x) + (ImgWidth \div 2) * s
        yn == ImgHeight * s - (2 * (p[2] - r.y) + (ImgHeight \div 2) * s)
        g  == GCD(GCD(xn, yn), s)
    IN  [x |-> xn \div g, y |-> yn \div g, d |-> s \div g]

\* mouse: each coordinate rounded, then .min(255.0)
RoundedSample(mf) ==
    <<Min(Round(mf.x, mf.d), MaxCoord), Min(Round(mf.y, mf.d), MaxCoord)>>

\* (m.x as _, m.y as _): the previous sample as handed to Bresenham
TruncatedSample(mf) == <<Trunc(mf.x, mf.d), Trunc(mf.y, mf.d)>>

-----------------------------------------------------------------------------
(* line_drawing::Bresenham<i32>, as called at main.rs 226-229 *)

Octant(start, end) ==
    LET dx0 == end[1] - start[1]
        dy0 == end[2] - start[2]
        f1  == dy0 < 0
        dx1 == IF f1 THEN -dx0 ELSE dx0
        dy1 == IF f1 THEN -dy0 ELSE dy0
        f2  == dx1 < 0
        dx2 == IF f2 THEN dy1 ELSE dx1
        dy2 == IF f2 THEN -dx1 ELSE dy1
    IN  (IF f1 THEN 4 ELSE 0) + (IF f2 THEN 2 ELSE 0)
          + (IF dx2 < dy2 THEN 1 ELSE 0)

OctantTo(o, p) ==
    CASE o = 0 -> <<p[1], p[2]>>
      [] o = 1 -> <<p[2], p[1]>>
      [] o = 2 -> <<p[2], -p[1]>>
      [] o = 3 -> <<-p[1], p[2]>>
      [] o = 4 -> <<-p[1], -p[2]>>
      [] o = 5 -> <<-p[2], -p[1]>>
      [] o = 6 -> <<-p[2], p[1]>>
      [] o = 7 -> <<p[1], -p[2]>>

OctantFrom(o, p) ==
    CASE o = 0 -> <<p[1], p[2]>>
      [] o = 1 -> <<p[2], p[1]>>
      [] o = 2 -> <<-p[2], p[1]>>
      [] o = 3 -> <<-p[1], p[2]>>
      [] o = 4 -> <<-p[1], -p[2]>>
      [] o = 5 -> <<-p[2], -p[1]>>
      [] o = 6 -> <<p[2], -p[1]>>
      [] o = 7 -> <<p[1], -p[2]>>

\* Iterator::next, n times from the iterator state st = <<x, y, error>>:
\* the cells produced and the state reached.  The steps are taken in
\* order; the split in halves only keeps the evaluation shallow.
RECURSIVE BresenhamWalk(_, _, _, _, _)
BresenhamWalk(st, n, dx, dy, o) ==
    IF n = 0 THEN [cells |-> << >>, st |-> st]
    ELSE IF n = 1
    THEN [cells |-> <<OctantFrom(o, <<st[1], st[2]>>)>>,
          st |-> <<st[1] + 1,
                   IF st[3] >= 0 THEN st[2] + 1 ELSE st[2],
                   (IF st[3] >= 0 THEN st[3] - dx ELSE st[3]) + dy>>]
    ELSE LET h == BresenhamWalk(st, n \div 2, dx, dy, o)
             t == BresenhamWalk(h.st, n - n \div 2, dx, dy, o)
         IN  [cells |-> h.cells \o t.cells, st |-> t.st]

\* Bresenham::new and the iteration while point.0 <= end_x
Bresenham(start, end) ==
    LET o  == Octant(start, end)
        s  == OctantTo(o, start)
        e  == OctantTo(o, end)
        dx == e[1] - s[1]
        dy == e[2] - s[2]
    IN  BresenhamWalk(<<s[1], s[2], dy - dx>>, Max(dx + 1, 0), dx, dy, o).cells

-----------------------------------------------------------------------------
(* Brush: main.rs 223-258 *)

White == <<MaxChannel, MaxChannel, MaxChannel, MaxChannel>>

InBounds(p) ==
    /\ 0 <= p[1] /\ p[1] < ImgWidth
    /\ 0 <= p[2] /\ p[2] < ImgHeight

\* DynamicImage::get_pixel on the stored bitmap
GetPixel(pix, p) == IF p \in DOMAIN pix THEN pix[p] ELSE White

\* Variant of the radius that truncates instead of rounding
RadiusTruncated(b) == b \div 4

\* rad: (brush_size / 2.0).round() as i32
Radius(b) == Round(b, 4)

\* Variant of the falloff without the factor 2
OpacityNoDouble(mf, p, b) ==
    LET ex  == mf.x - p[1] * mf.d
        ey  == mf.y - p[2] * mf.d
        lim == b * mf.d
    IN  IF Abs(ex) >= lim \/ Abs(ey) >= lim THEN 0
        ELSE LET A == lim * lim
                 B == 4 * (ex * ex + ey * ey)
             IN  IF B >= A THEN 0 ELSE MulDivFloor(MaxChannel, A - B, A)

\* opac as u8, for the pixel p and the exact sample mf:
\* 255 * (-1 / (D * D) * dist^2 * 2 + 1), .max(0.0), truncated.
\* A pixel at least D away along one axis has opacity 0 (tested first to
\* keep the squares small).
Opacity(mf, p, b) ==
    LET ex  == mf.x - p[1] * mf.d
        ey  == mf.y - p[2] * mf.d
        lim == b * mf.d
    IN  IF 2 * Abs(ex) >= lim \/ 2 * Abs(ey) >= lim THEN 0
        ELSE LET A == lim * lim
                 B == 8 * (ex * ex + ey * ey)
             IN  IF B >= A THEN 0 ELSE MulDivFloor(MaxChannel, A - B, A)

(* f32 arithmetic of Rgba<u8>::blend.  A positive f32 is [m, e], standing
   for m * 2^(-e) with 2^23 <= m < 2^24; every operation rounds its exact
   result to the nearest such value, ties to the even mantissa. *)

F32Zero == [m |-> 0, e |-> 0]

MantissaBits == 24

\* number of bits of n, 0 <= n < 2^31
BitLen4(n) ==
    IF n >= 8 THEN 4 ELSE IF n >= 4 THEN 3 ELSE IF n >= 2 THEN 2 ELSE n

BitLen8(n) == IF n >= 16 THEN 4 + BitLen4(n \div 16) ELSE BitLen4(n)

BitLen16(n) == IF n >= 256 THEN 8 + BitLen8(n \div 256) ELSE BitLen8(n)

BitLen(n) == IF n >= 65536 THEN 16 + BitLen16(n \div 65536) ELSE BitLen16(n)

\* the mantissa m rounded up to 2^24 is 2^23 with the exponent one less
F32Carry(m, e) ==
    IF m = 2^MantissaBits THEN [m |-> 2^(MantissaBits - 1), e |-> e - 1]
    ELSE [m |-> m, e |-> e]

\* round to nearest, ties to even: q the kept bits, rem the dropped bits,
\* half the weight of the first dropped bit
F32RoundShift(q, rem, half, sticky, e) ==
    IF rem > half \/ (rem = half /\ (sticky \/ q % 2 = 1))
    THEN F32Carry(q + 1, e)
    ELSE F32Carry(q, e)

\* S has L bits: normalised to 24 bits
F32RoundBits(S, sticky, e, L) ==
    IF L <= MantissaBits
    THEN [m |-> S * 2^(MantissaBits - L), e |-> e + MantissaBits - L]
    ELSE F32RoundShift(S \div 2^(L - MantissaBits), S % 2^(L - MantissaBits),
                       2^(L - MantissaBits - 1), sticky,
                       e - (L - MantissaBits))

\* the f32 nearest to (S + t) * 2^(-e), where 0 <= t < 1 and sticky tells
\* whether t > 0
F32Round(S, sticky, e) ==
    IF S = 0 THEN F32Zero ELSE F32RoundBits(S, sticky, e, BitLen(S))

\* u8 as f32
F32FromInt(k) == F32Round(k, FALSE, 0)

\* X + Y or X - Y, where lost tells whether bits of the smaller operand
\* were shifted out below Y
F32AddSticky(X, Y, lost, e, sign) ==
    IF sign > 0 THEN F32Round(X + Y, lost, e)
    ELSE IF lost THEN F32Round(X - Y - 1, TRUE, e)
    ELSE F32Round(X - Y, FALSE, e)

\* the smaller operand Y8 shifted right by d bits
F32AddAligned(X, Y8, d, e, sign) ==
    IF d > 27 THEN F32AddSticky(X, 0, TRUE, e, sign)
    ELSE F32AddSticky(X, Y8 \div 2^d, Y8 % 2^d # 0, e, sign)

\* x + y (sign 1) or x - y (sign -1) for x >= y >= 0: y is aligned to x
\* with three extra bits, the bits shifted out kept as sticky
F32AddOrdered(x, y, sign) ==
    IF y.m = 0 THEN x
    ELSE F32AddAligned(8 * x.m, 8 * y.m, y.e - x.e, x.e + 3, sign)

F32Less(x, y) ==
    IF y.m = 0 THEN FALSE
    ELSE IF x.m = 0 THEN TRUE
    ELSE x.e > y.e \/ (x.e = y.e /\ x.m < y.m)

F32Add(x, y) ==
    IF F32Less(x, y) THEN F32AddOrdered(y, x, 1) ELSE F32AddOrdered(x, y, 1)

\* x - y for x >= y
F32Sub(x, y) == F32AddOrdered(x, y, -1)

\* the 48-bit product as H * 2^24 + Lr, rounded
F32MulRound(H, Lr, e) ==
    F32Round(4 * H + Lr \div 2^22, Lr % 2^22 # 0, e)

F32MulLow(H0, L, e) == F32MulRound(H0 + L \div 2^24, L % 2^24, e)

F32MulMid(hi, mid, lo, e) ==
    F32MulLow(hi + mid \div 4096, lo + (mid % 4096) * 4096, e)

\* the product of a1 * 2^12 + a0 and b1 * 2^12 + b0
F32MulHalves(a1, a0, b1, b0, e) ==
    F32MulMid(a1 * b1, a1 * b0 + a0 * b1, a0 * b0, e)

\* x * y: the 48-bit product from 12-bit halves
F32Mul(x, y) ==
    IF x.m = 0 \/ y.m = 0 THEN F32Zero
    ELSE F32MulHalves(x.m \div 4096, x.m % 4096, y.m \div 4096, y.m % 4096,
                      x.e + y.e - 22)

\* one step of the long division: b more bits of the quotient h[1], from
\* the remainder h[2]
DivStep(h, d, b) ==
    <<2^b * h[1] + (2^b * h[2]) \div d, (2^b * h[2]) % d>>

\* floor(n * 2^k / d) and the remainder, for d < 2^24, six bits at a time
RECURSIVE LongDiv(_, _, _)
LongDiv(n, d, k) ==
    IF k = 0 THEN <<n \div d, n % d>>
    ELSE IF k % 6 = 0 THEN DivStep(LongDiv(n, d, k - 6), d, 6)
    ELSE DivStep(LongDiv(n, d, k - (k % 6)), d, k % 6)

\* the quotient of the mantissas, rounded
DivRound(q, e) == F32Round(q[1], q[2] # 0, e)

\* x / y, y > 0
F32Div(x, y) ==
    IF x.m = 0 THEN F32Zero
    ELSE IF x.m >= y.m
         THEN DivRound(LongDiv(x.m, y.m, MantissaBits),
                       MantissaBits + x.e - y.e)
         ELSE DivRound(LongDiv(x.m, y.m, MantissaBits + 1),
                       MantissaBits + 1 + x.e - y.e)

\* NumCast to u8 of a value in [0, 256): truncation
F32Trunc(x) ==
    IF x.m = 0 \/ x.e > MantissaBits THEN 0
    ELSE IF x.e >= 0 THEN x.m \div 2^x.e
    ELSE x.m * 2^(-x.e)

\* a u8 channel as f32, divided by max_t = 255.0
ChannelF32 ==
    [k \in 0 .. MaxChannel |->
        F32Div(F32FromInt(k), F32FromInt(MaxChannel))]

\* Variant of the blend that replaces the pixel by the source colour
BlendReplace(bg, opac) ==
    IF opac = 0 THEN bg ELSE <<0, 0, 0, opac>>

\* 255 * (bg_c * bg_a * (1 - fg_a)) / alpha_final as u8: a colour channel
\* of the blend, the source colour being 0
BlendChannel(bg_c, bg_a, fg_a, alpha_final) ==
    F32Trunc(F32Mul(F32FromInt(MaxChannel),
                    F32Div(F32Add(F32Mul(F32Zero, fg_a),
                                  F32Mul(F32Mul(bg_c, bg_a),
                                         F32Sub(F32FromInt(1), fg_a))),
                           alpha_final)))

\* a colour whose three colour channels are equal
Grey(g, a) == <<g, g, g, a>>

\* the blend, given alpha_final = bg_a + fg_a - bg_a * fg_a; equal channels
\* of bg have equal results
BlendWith(bg, opac, alpha_final) ==
    IF alpha_final.m = 0 THEN bg
    ELSE IF bg[1] = bg[2] /\ bg[2] = bg[3]
    THEN Grey(BlendChannel(ChannelF32[bg[1]], ChannelF32[bg[4]],
                           ChannelF32[opac], alpha_final),
              F32Trunc(F32Mul(F32FromInt(MaxChannel), alpha_final)))
    ELSE <<BlendChannel(ChannelF32[bg[1]], ChannelF32[bg[4]],
                        ChannelF32[opac], alpha_final),
           BlendChannel(ChannelF32[bg[2]], ChannelF32[bg[4]],
                        ChannelF32[opac], alpha_final),
           BlendChannel(ChannelF32[bg[3]], ChannelF32[bg[4]],
                        ChannelF32[opac], alpha_final),
           F32Trunc(F32Mul(F32FromInt(MaxChannel), alpha_final))>>

\* Rgba<u8>::blend of the source (0, 0, 0, opac) onto bg (source-over),
\* computed in f32 on channels divided by 255
Blend(bg, opac) ==
    IF opac = 0 THEN bg
    ELSE IF opac = MaxChannel THEN <<0, 0, 0, MaxChannel>>
    ELSE BlendWith(bg, opac,
                   F32Sub(F32Add(ChannelF32[bg[4]], ChannelF32[opac]),
                          F32Mul(ChannelF32[bg[4]], ChannelF32[opac])))

\* The loops over i and j for one line cell.  The pixels of one cell are
\* distinct, so they are blended independently; get_pixel panics at the
\* first offset (i ascending, then j) whose pixel is out of bounds.
\* A pixel has a positive opacity only if it is less than D / sqrt(2) from
\* the sample along each axis, so only those pixels are enumerated; the
\* others are blended with opacity 0, which leaves them as they are.
StampCell(pix, cell, mf, b) ==
    LET rad   == Radius(b)
        lo    == -2 * rad
        hi    == 2 * rad - 1
        lim   == b * mf.d
        idx(i, j) == (i - lo) * (4 * rad) + (j - lo)
        at(i, j)  == <<cell[1] + i, cell[2] + j>>
        whole == InBounds(at(lo, lo)) /\ InBounds(at(hi, hi))
        oob   == IF whole THEN {}
                 ELSE { idx(q[1], q[2]) : q \in { q \in (lo .. hi) \X (lo .. hi) :
                                                   ~InBounds(at(q[1], q[2])) } }
        stop  == IF oob = {} THEN 16 * rad * rad
                 ELSE CHOOSE k \in oob : \A l \in oob : k <= l
        close(e) == 2 * Abs(e) < lim /\ 8 * e * e < lim * lim
        nearx == { i \in lo .. hi : close(mf.x - (cell[1] + i) * mf.d) }
        neary == { j \in lo .. hi : close(mf.y - (cell[2] + j) * mf.d) }
        near  == { at(q[1], q[2]) : q \in { q \in nearx \X neary :
                                              idx(q[1], q[2]) < stop } }
        done  == [p \in near |->
                     Blend(GetPixel(pix, p), Opacity(mf, p, b))] @@ pix
        dom   == { p \in DOMAIN done : done[p] # White }
    IN  [pix |-> IF near = {} THEN pix ELSE [p \in dom |-> done[p]],
         ok |-> (oob = {})]

\* The loop over the cells lo .. hi of the line, in order; a panic ends it.
\* The split in halves only keeps the evaluation shallow.
RECURSIVE StampCells(_, _, _, _, _, _)
StampCells(pix, cells, lo, hi, mf, b) ==
    IF lo > hi THEN [pix |-> pix, ok |-> TRUE]
    ELSE IF lo = hi THEN StampCell(pix, cells[lo], mf, b)
    ELSE LET mid == (lo + hi) \div 2
             r   == StampCells(pix, cells, lo, mid, mf, b)
         IN  IF r.ok THEN StampCells(r.pix, cells, mid + 1, hi, mf, b) ELSE r

\* Some(m) branch: the segment from the previous sample to the current one
Stamp(pix, m, mf, b) ==
    LET cells == Bresenham(TruncatedSample(m), RoundedSample(mf))
    IN  StampCells(pix, cells, 1, Len(cells), mf, b)

-----------------------------------------------------------------------------
(* Initial state: model() at main.rs 151-159 and EditorState::default() at
   main.rs 98-114.  The two windows sit in a HashMap, whose iteration order
   is fixed at construction and unknown. *)

Init ==
    /\ scale = ScaleInit
    /\ brush_size = BrushInit
    /\ mode = "Move"
    /\ last_mouse = None
    /\ offset = <<0, 0>>
    /\ selected = FALSE
    /\ pixels = << >>
    /\ rect = [x |-> 0, y |-> 0, w |-> 2 * ImgWidth, h |-> 2 * ImgHeight]
    /\ mouse = <<0, 0>>
    /\ editor_first \in BOOLEAN
    /\ panicked = FALSE
    /\ steps = 0

\* A handler runs to completion before the next event; nothing runs after
\* a panic.
Running == ~panicked /\ steps < MaxSteps

-----------------------------------------------------------------------------
(* raw_window_event, Editor window: main.rs 162-323 *)

\* Variant of the scroll arithmetic without the clamp
ScrolledNoClamp(s, delta) == (s * (10 + delta)) \div 10

\* scale + delta / 10 * scale, clamped; in tenths of a quarter before the
\* division
Scrolled(s, delta) ==
    IF s * (10 + delta) <= 10 * ScaleMin THEN ScaleMin
    ELSE IF s * (10 + delta) >= 10 * ScaleMax THEN ScaleMax
    ELSE (s * (10 + delta)) \div 10

\* the scrolled scale is a whole number of quarters
ScrollRepresentable(s, delta) ==
    \/ s * (10 + delta) <= 10 * ScaleMin
    \/ s * (10 + delta) >= 10 * ScaleMax
    \/ (s * (10 + delta)) % 10 = 0

MouseWheelPixelDelta(d) ==
    /\ Running
    /\ ScrollRepresentable(scale, d)
    /\ scale' = Scrolled(scale, d)
    /\ steps' = steps + 1
    /\ UNCHANGED <<brush_size, mode, last_mouse, offset, selected, pixels,
                   rect, mouse, editor_first, panicked>>

\* Variant of the line scroll that resizes the brush instead of the canvas
MouseWheelLineDeltaBrush(y) ==
    /\ Running
    /\ ScrollRepresentable(scale, y)
    /\ brush_size' = Clamp(brush_size + y, BrushMin, BrushMax)
    /\ steps' = steps + 1
    /\ UNCHANGED <<scale, mode, last_mouse, offset, selected, pixels,
                   rect, mouse, editor_first, panicked>>

MouseWheelLineDelta(y) ==
    /\ Running
    /\ ScrollRepresentable(scale, y)
    /\ scale' = Scrolled(scale, y)
    /\ steps' = steps + 1
    /\ UNCHANGED <<brush_size, mode, last_mouse, offset, selected, pixels,
                   rect, mouse, editor_first, panicked>>

\* -(rect.xy() - mouse)
translate_mouse_center(m, r) == <<m[1] - r.x, m[2] - r.y>>

\* Variant of the button handler that keeps the stroke sample
MouseInputKeepsSample(pressed) ==
    /\ Running
    /\ selected' = pressed
    /\ offset' = translate_mouse_center(mouse, rect)
    /\ steps' = steps + 1
    /\ UNCHANGED <<scale, brush_size, mode, last_mouse, pixels, rect, mouse,
                   editor_first, panicked>>

MouseInput(pressed) ==
    /\ Running
    /\ selected' = pressed
    /\ last_mouse' = None
    /\ offset' = translate_mouse_center(mouse, rect)
    /\ steps' = steps + 1
    /\ UNCHANGED <<scale, brush_size, mode, pixels, rect, mouse,
                   editor_first, panicked>>

MouseInputPressed == MouseInput(TRUE)

MouseInputReleased == MouseInput(FALSE)

\* Variant of the Paint arm that stamps on a first sample too, taking the
\* sample itself as the previous one
PaintArmStampsFirst(p) ==
    /\ UNCHANGED rect
    /\ IF Contains(rect, p) /\ selected
       THEN LET mousef == ScreenToBitmap(p, rect, scale)
                m == IF last_mouse # None THEN last_mouse[1] ELSE mousef
                r == Stamp(pixels, m, mousef, brush_size)
            IN  /\ pixels' = r.pix
                /\ panicked' = ~r.ok
                /\ last_mouse' = IF r.ok THEN Some(mousef) ELSE last_mouse
       ELSE UNCHANGED <<last_mouse, pixels, panicked>>

\* Variant of the Paint arm without the hit test of the rectangle
PaintArmNoHitTest(p) ==
    /\ UNCHANGED rect
    /\ IF selected
       THEN LET mousef == ScreenToBitmap(p, rect, scale)
            IN  /\ last_mouse' = Some(mousef)
                /\ UNCHANGED <<pixels, panicked>>
       ELSE UNCHANGED <<last_mouse, pixels, panicked>>

\* Variant of the Paint arm that takes the rounded sample as the previous
\* sample of a first move, so that the next move starts from it
PaintArmKeepsOld(p) ==
    /\ UNCHANGED rect
    /\ IF Contains(rect, p) /\ selected
       THEN LET mousef == ScreenToBitmap(p, rect, scale)
            IN  IF last_mouse # None
                THEN LET r == Stamp(pixels, last_mouse[1], mousef, brush_size)
                     IN  /\ pixels' = r.pix
                         /\ panicked' = ~r.ok
                         /\ UNCHANGED last_mouse
                ELSE /\ last_mouse' = Some(mousef)
                     /\ UNCHANGED <<pixels, panicked>>
       ELSE UNCHANGED <<last_mouse, pixels, panicked>>

\* Variant of the Paint arm that ends the stroke when the pointer is outside
\* the rectangle
PaintArmDropsOutside(p) ==
    /\ UNCHANGED rect
    /\ IF Contains(rect, p) /\ selected
       THEN LET mousef == ScreenToBitmap(p, rect, scale)
            IN  IF last_mouse # None
                THEN LET r == Stamp(pixels, last_mouse[1], mousef, brush_size)
                     IN  /\ pixels' = r.pix
                         /\ panicked' = ~r.ok
                         /\ last_mouse' = IF r.ok THEN Some(mousef)
                                                  ELSE last_mouse
                ELSE /\ last_mouse' = Some(mousef)
                     /\ UNCHANGED <<pixels, panicked>>
       ELSE /\ last_mouse' = None
            /\ UNCHANGED <<pixels, panicked>>

\* Variant of the Paint arm that samples without a press
PaintArmNoSelected(p) ==
    /\ UNCHANGED rect
    /\ IF Contains(rect, p)
       THEN LET mousef == ScreenToBitmap(p, rect, scale)
            IN  IF last_mouse # None
                THEN LET r == Stamp(pixels, last_mouse[1], mousef, brush_size)
                     IN  /\ pixels' = r.pix
                         /\ panicked' = ~r.ok
                         /\ last_mouse' = IF r.ok THEN Some(mousef)
                                                  ELSE last_mouse
                ELSE /\ last_mouse' = Some(mousef)
                     /\ UNCHANGED <<pixels, panicked>>
       ELSE UNCHANGED <<last_mouse, pixels, panicked>>

\* Mode::Paint arm
PaintArm(p) ==
    /\ UNCHANGED rect
    /\ IF Contains(rect, p) /\ selected
       THEN LET mousef == ScreenToBitmap(p, rect, scale)
            IN  IF last_mouse # None
                THEN LET r == Stamp(pixels, last_mouse[1], mousef, brush_size)
                     IN  /\ pixels' = r.pix
                         /\ panicked' = ~r.ok
                         /\ last_mouse' = IF r.ok THEN Some(mousef)
                                                  ELSE last_mouse
                ELSE /\ last_mouse' = Some(mousef)
                     /\ UNCHANGED <<pixels, panicked>>
       ELSE UNCHANGED <<last_mouse, pixels, panicked>>

\* Variant of the Move arm that runs the Paint arm as well as the drag
MoveArmAlsoPaints(p) ==
    /\ IF selected /\ last_mouse # None /\ Contains(rect, p)
       THEN LET r == Stamp(pixels, last_mouse[1],
                           ScreenToBitmap(p, rect, scale), brush_size)
            IN  pixels' = r.pix /\ panicked' = ~r.ok
       ELSE UNCHANGED <<pixels, panicked>>
    /\ rect' = IF selected
               THEN [rect EXCEPT !.x = p[1] - offset[1], !.y = p[2] - offset[2]]
               ELSE rect
    /\ UNCHANGED last_mouse

\* Variant of the Move arm that forgets the stroke sample
MoveArmClearsSample(p) ==
    /\ rect' = IF selected
               THEN [rect EXCEPT !.x = p[1] - offset[1], !.y = p[2] - offset[2]]
               ELSE rect
    /\ last_mouse' = None
    /\ UNCHANGED <<pixels, panicked>>

\* Variant of the Move arm that centres the rectangle on the pointer
MoveArmCentres(p) ==
    /\ rect' = IF selected THEN [rect EXCEPT !.x = p[1], !.y = p[2]] ELSE rect
    /\ UNCHANGED <<last_mouse, pixels, panicked>>

\* Variant of the Move arm that drags without a press
MoveArmNoSelected(p) ==
    /\ rect' = [rect EXCEPT !.x = p[1] - offset[1], !.y = p[2] - offset[2]]
    /\ UNCHANGED <<last_mouse, pixels, panicked>>

\* Mode::Move arm: the rectangle follows the pointer, its size kept
MoveArm(p) ==
    /\ rect' = IF selected
               THEN [rect EXCEPT !.x = p[1] - offset[1], !.y = p[2] - offset[2]]
               ELSE rect
    /\ UNCHANGED <<last_mouse, pixels, panicked>>

CursorMoved(p) ==
    /\ Running
    /\ mouse' = p
    /\ IF mode = "Move" THEN MoveArm(p) ELSE PaintArm(p)
    /\ steps' = steps + 1
    /\ UNCHANGED <<scale, brush_size, mode, offset, selected, editor_first>>

-----------------------------------------------------------------------------
(* update: main.rs 365-432.  One call visits both windows, in the order of
   the HashMap; the Workbench arm is given what its widgets return. *)

\* Editor arm: the size follows the scale, the centre is kept
EditorArm(r, s) ==
    [r EXCEPT !.w = (ImgWidth * s) \div 2, !.h = (ImgHeight * s) \div 2]

\* Variant of the Workbench arm whose brush slider starts at 0
UpdateBrushFromZero(sc, br, click) ==
    /\ Running
    /\ scale' = IF sc # None THEN sc[1] ELSE scale
    /\ brush_size' = IF br # None THEN br[1] - BrushMin ELSE brush_size
    /\ mode' = IF click # None THEN click[1] ELSE mode
    /\ rect' = EditorArm(rect, IF editor_first THEN scale ELSE scale')
    /\ steps' = steps + 1
    /\ UNCHANGED <<last_mouse, offset, selected, pixels, mouse,
                   editor_first, panicked>>

\* Workbench arm: sc, br are the sliders' values or None, click the button
\* clicked or None
Update(sc, br, click) ==
    /\ Running
    /\ scale' = IF sc # None THEN sc[1] ELSE scale
    /\ brush_size' = IF br # None THEN br[1] ELSE brush_size
    /\ mode' = IF click # None THEN click[1] ELSE mode
    /\ rect' = EditorArm(rect, IF editor_first THEN scale ELSE scale')
    /\ steps' = steps + 1
    /\ UNCHANGED <<last_mouse, offset, selected, pixels, mouse,
                   editor_first, panicked>>

UpdateIdle == Update(None, None, None)

UpdateScaleSlider(v) == Update(Some(v), None, None)

UpdateBrushSlider(v) == Update(None, Some(v), None)

UpdateMoveButton == Update(None, None, Some("Move"))

UpdatePaintButton == Update(None, None, Some("Paint"))

-----------------------------------------------------------------------------

Next ==
    \/ \E d \in PixelDeltas : MouseWheelPixelDelta(d)
    \/ \E y \in LineDeltas : MouseWheelLineDelta(y)
    \/ MouseInputPressed
    \/ MouseInputReleased
    \/ \E p \in Points : CursorMoved(p)
    \/ UpdateIdle
    \/ \E v \in ScaleSliderValues : UpdateScaleSlider(v)
    \/ \E v \in BrushSliderValues : UpdateBrushSlider(v)
    \/ UpdateMoveButton
    \/ UpdatePaintButton

Spec == Init /\ [][Next]_vars

-----------------------------------------------------------------------------
(* The brush, explored on its own: the states in which a stroke has taken
   its first sample (Paint chosen, the sliders set, an update run, the
   button pressed, one cursor-move handled), followed by the cursor-moves
   of the stroke. *)

InitBrush ==
    /\ scale \in StrokeScales
    /\ brush_size \in StrokeBrushSizes
    /\ mode = "Paint"
    /\ selected = TRUE
    /\ offset = <<0, 0>>
    /\ pixels = << >>
    /\ rect = EditorArm([x |-> 0, y |-> 0, w |-> 2 * ImgWidth,
                                          h |-> 2 * ImgHeight], scale)
    /\ mouse \in StrokePoints
    /\ last_mouse = Some(ScreenToBitmap(mouse, rect, scale))
    /\ editor_first = TRUE
    /\ panicked = FALSE
    /\ steps = MaxSteps - MaxStrokeMoves

NextBrush == \E p \in StrokePoints : CursorMoved(p)

SpecBrush == InitBrush /\ [][NextBrush]_vars

-----------------------------------------------------------------------------
(* Properties *)

IsCursorMoved == \E p \in Points \cup StrokePoints : CursorMoved(p)

IsMouseWheel ==
    \/ \E d \in PixelDeltas : MouseWheelPixelDelta(d)
    \/ \E y \in LineDeltas : MouseWheelLineDelta(y)

IsMouseInput == MouseInputPressed \/ MouseInputReleased

\* the pointer position of a handled event is inside the rectangle that
\* the handler tests
Inside(p) == Contains(rect, p)

\* C1: in Paint mode a cursor-move handled while no previous sample is held
\* blends no pixel and only records the sample (when it is taken at all);
\* a press leaves no sample, and the bitmap changes only on a move made
\* while a sample is held, so at the earliest on the second in-canvas move
\* of a press.
C1_FirstMoveOnlyRecords ==
    [][ /\ (IsCursorMoved /\ mode = "Paint" /\ last_mouse = None) =>
              /\ pixels' = pixels
              /\ ~panicked'
              /\ UNCHANGED <<selected, offset, rect, scale, brush_size, mode>>
              /\ last_mouse' = IF Inside(mouse') /\ selected
                               THEN Some(ScreenToBitmap(mouse', rect, scale))
                               ELSE None
        /\ MouseInputPressed => last_mouse' = None
        /\ pixels' # pixels => last_mouse # None /\ selected
      ]_vars

\* a first in-canvas move of a press has been handled: the sample is held
\* and no pixel has been blended
C1_Witness ==
    /\ mode = "Paint" /\ selected /\ last_mouse # None
    /\ pixels = << >> /\ ~panicked

\* C2 as stated: a press in Paint mode inside the canvas changes no pixel
\* and records the bitmap point under the pointer as last_sample, so that
\* the first in-canvas move after it stamps a segment.
C2_PressRecordsSample ==
    [][ (MouseInputPressed /\ mode = "Paint" /\ Inside(mouse)) =>
              /\ pixels' = pixels
              /\ last_mouse' = Some(ScreenToBitmap(mouse, rect, scale))
      ]_vars

\* C2 as amended: a press in Paint mode changes no pixel and leaves
\* last_sample absent; the first in-canvas move after it, to Q, blends no
\* pixel and sets last_sample = Q; a later in-canvas move of the same press,
\* to R, runs the stamper on the segment from Q to R and, when the stamper
\* returns, sets last_sample = R.
C2_PressThenTwoMoves ==
    [][ /\ (MouseInputPressed /\ mode = "Paint") =>
              /\ pixels' = pixels
              /\ selected'
              /\ last_mouse' = None
        /\ (IsCursorMoved /\ mode = "Paint" /\ selected /\ Inside(mouse')) =>
              LET Q == ScreenToBitmap(mouse', rect, scale)
              IN  IF last_mouse = None
                  THEN pixels' = pixels /\ last_mouse' = Some(Q)
                  ELSE LET r == Stamp(pixels, last_mouse[1], Q, brush_size)
                       IN  /\ pixels' = r.pix
                           /\ r.ok => last_mouse' = Some(Q)
      ]_vars

\* a second in-canvas move of a press has stamped its segment: pixels are
\* blended and the sample held is the pointer's
C2_Witness ==
    /\ mode = "Paint" /\ selected /\ ~panicked
    /\ pixels # << >>
    /\ last_mouse = Some(ScreenToBitmap(mouse, rect, scale))

\* C3: painting never fails on an out-of-bounds pixel: no handler panics.
C3_NeverPanics == ~panicked

\* C4: a release ends the stroke in either mode, wherever the pointer is:
\* afterwards selected is false, last_sample is absent and the bitmap is
\* what it was.
C4_ReleaseEndsStroke ==
    [][ MouseInputReleased =>
              /\ selected' = FALSE
              /\ last_mouse' = None
              /\ pixels' = pixels
      ]_vars

\* a stroke that painted has been released
C4_Witness ==
    /\ ~selected /\ last_mouse = None /\ pixels # << >> /\ ~panicked

\* C5: a cursor-move handled in Move mode changes neither the bitmap nor
\* last_sample, and a cursor-move handled in Paint mode does not change the
\* canvas rectangle.
C5_ModeDispatchExclusive ==
    [][ IsCursorMoved =>
              /\ mode = "Move" =>
                    pixels' = pixels /\ last_mouse' = last_mouse /\ ~panicked'
              /\ mode = "Paint" => rect' = rect
      ]_vars

\* the canvas has been dragged in Move mode while a stroke sample was held
C5_Witness ==
    /\ mode = "Move" /\ selected /\ last_mouse # None
    /\ <<rect.x, rect.y>> # <<0, 0>>

\* C6: the bitmap is changed only by a Paint-mode cursor-move that stamps a
\* segment (button held, sample held, pointer inside the rectangle); every
\* other event or update leaves every pixel as it was.
C6_OnlyStampChangesBitmap ==
    [][ pixels' # pixels =>
              /\ IsCursorMoved
              /\ mode = "Paint" /\ selected /\ last_mouse # None
              /\ Inside(mouse')
      ]_vars

\* the mode was switched from Paint to Move during a press that painted
C6_Witness ==
    /\ mode = "Move" /\ selected /\ last_mouse # None /\ pixels # << >>

\* C7: mode is changed only by the Move and Paint buttons and brush_size
\* only by its slider; no pointer event changes either.
C7_ModeAndBrushByControlsOnly ==
    [][ /\ mode' # mode => UpdateMoveButton \/ UpdatePaintButton
        /\ brush_size' # brush_size =>
              \E v \in BrushSliderValues : UpdateBrushSlider(v)
        /\ (IsMouseInput \/ IsCursorMoved \/ IsMouseWheel) =>
              UNCHANGED <<mode, brush_size>>
      ]_vars

\* both controls have been used and pointer events handled after them
C7_Witness ==
    /\ mode = "Paint" /\ brush_size # BrushInit
    /\ selected /\ last_mouse # None

\* C8: in every reachable state the scale lies in [1.0, 100.0].
C8_ScaleInRange == ScaleMin <= scale /\ scale <= ScaleMax

\* the scroll wheel has driven the scale into the upper clamp (the slider
\* values used stay below it)
C8_Witness == scale = ScaleMax /\ ScaleMax \notin ScaleSliderValues

\* C9: a scale change recomputes the rectangle (size = bitmap dimensions x
\* scale, centre kept), and the rectangle that hit-tests a Paint-mode
\* cursor-move has the size that corresponds to the scale that transforms
\* the event.
C9_RectFollowsScale ==
    [][ /\ scale' # scale => rect' = EditorArm(rect, scale')
        /\ (IsCursorMoved /\ mode = "Paint") => rect = EditorArm(rect, scale)
      ]_vars

\* C10 as stated: in Paint mode a press, cursor-move or release that occurs
\* while the pointer is outside the rectangle changes none of selected,
\* last_sample, the drag offset and the bitmap.
C10_OutsideIgnored ==
    [][ /\ (IsMouseInput /\ mode = "Paint" /\ ~Inside(mouse)) =>
              UNCHANGED <<selected, last_mouse, offset, pixels>>
        /\ (IsCursorMoved /\ mode = "Paint" /\ ~Inside(mouse')) =>
              UNCHANGED <<selected, last_mouse, offset, pixels>>
      ]_vars

\* C10 as amended: in Paint mode a cursor-move outside the rectangle
\* changes none of selected, last_sample, the drag offset and the bitmap;
\* a press or release is not hit-tested: outside the rectangle too it sets
\* selected (true on press, false on release), clears last_sample and
\* records the drag offset, leaving the bitmap as it was.
C10_OutsideMoveIgnored ==
    [][ /\ (IsCursorMoved /\ mode = "Paint" /\ ~Inside(mouse')) =>
              UNCHANGED <<selected, last_mouse, offset, pixels, panicked>>
        /\ (IsMouseInput /\ mode = "Paint" /\ ~Inside(mouse)) =>
              /\ selected' = MouseInputPressed
              /\ last_mouse' = None
              /\ offset' = <<mouse[1] - rect.x, mouse[2] - rect.y>>
              /\ pixels' = pixels
      ]_vars

\* the pointer has left the rectangle during a stroke and the sample taken
\* inside is still held
C10_Witness ==
    /\ mode = "Paint" /\ selected /\ last_mouse # None
    /\ ~Inside(mouse) /\ ~panicked

\* C11: while no press is active (from a release until the next press) a
\* cursor-move changes neither the bitmap nor the canvas rectangle nor
\* last_sample, in either mode; a mode switch made meanwhile changes none
\* of them either, and selected stays false until a press.
C11_ReleasedMovesInert ==
    [][ /\ (IsCursorMoved /\ ~selected) =>
              UNCHANGED <<pixels, rect, last_mouse, selected>> /\ ~panicked'
        /\ ((UpdateMoveButton \/ UpdatePaintButton) /\ ~selected) =>
              UNCHANGED <<pixels, last_mouse, selected>>
              /\ <<rect'.x, rect'.y>> = <<rect.x, rect.y>>
        /\ (~selected /\ selected') => MouseInputPressed
      ]_vars

\* the canvas was dragged, the button released, and the pointer has moved
\* since the release without taking the canvas along
C11_Witness ==
    /\ ~selected /\ last_mouse = None
    /\ <<rect.x, rect.y>> # <<0, 0>>
    /\ offset # <<mouse[1] - rect.x, mouse[2] - rect.y>>

\* C13: a last_sample is held only while a press is active (last_sample
\* present implies selected), and it is absent right after every press and
\* right after every release.
C13_SampleOnlyWhilePressed ==
    /\ [](last_mouse # None => selected)
    /\ [][IsMouseInput => last_mouse' = None]_vars

\* a press made after a stroke that painted: the button is held and no
\* sample is
C13_Witness ==
    /\ selected /\ last_mouse = None /\ pixels # << >> /\ ~panicked

\* a Paint-mode cursor-move that runs the stamper: button held, previous
\* sample held, pointer inside the rectangle
IsStampedMove ==
    /\ IsCursorMoved
    /\ mode = "Paint" /\ selected /\ last_mouse # None
    /\ Inside(mouse')

\* the two endpoints handed to the line walk by the move being handled
P0 == TruncatedSample(last_mouse[1])

P1 == RoundedSample(ScreenToBitmap(mouse', rect, scale))

\* C12: both endpoints handed to the line walk of a stamped move, the
\* previous sample P0 and the current sample P1, have integer bitmap
\* coordinates inside [0, width-1] x [0, height-1].
C12_EndpointsInBounds ==
    [][ IsStampedMove => InBounds(P0) /\ InBounds(P1) ]_vars

\* the transform as the specification words it: centre subtracted, divided
\* by the scale, half the bitmap size added, vertical axis flipped, rounded
\* to the nearest integer, each coordinate clamped to [0, dimension-1]
ReferenceSample(p, r, s) ==
    LET xn == 2 * (p[1] - r.x) + (ImgWidth \div 2) * s
        yn == ImgHeight * s - (2 * (p[2] - r.y) + (ImgHeight \div 2) * s)
    IN  <<Clamp(Round(xn, s), 0, ImgWidth - 1),
          Clamp(Round(yn, s), 0, ImgHeight - 1)>>

\* C14: the sample computed for a Paint-mode cursor-move equals the
\* reference transform of the pointer position (rounded and clamped to
\* [0, dimension-1] on both sides), and it is the cell at which the line
\* walked for the move ends.
C14_SampleIsReference ==
    [][ /\ (IsCursorMoved /\ mode = "Paint" /\ selected /\ Inside(mouse')) =>
              P1 = ReferenceSample(mouse', rect, scale)
        /\ IsStampedMove =>
              LET cells == Bresenham(P0, P1)
              IN  cells[Len(cells)] = ReferenceSample(mouse', rect, scale)
      ]_vars

\* C15: the previous and the current sample are mapped to cells by the same
\* rule: the line walked for a stamped move starts at the cell at which the
\* line of the previous move of the stroke ended, the cell the held sample
\* had as current sample.
C15_SegmentsJoin ==
    [][ IsStampedMove =>
              Bresenham(P0, P1)[1] = RoundedSample(last_mouse[1]) ]_vars

\* the pixels visited by the loops over i and j around the cells of a line
BoxPixels(cells, b) ==
    LET rad == Radius(b)
    IN  UNION { { <<cells[k][1] + i, cells[k][2] + j>> :
                      i \in (-2 * rad) .. (2 * rad - 1),
                      j \in (-2 * rad) .. (2 * rad - 1) } :
                k \in 1 .. Len(cells) }

\* squared distance of the pixel p from the sample mf, times mf.d squared
Dist2(mf, p) ==
    (mf.x - p[1] * mf.d) * (mf.x - p[1] * mf.d)
      + (mf.y - p[2] * mf.d) * (mf.y - p[2] * mf.d)

\* the opacity as the specification words it: the integer truncation of
\* 255 * max(0, 1 - 2 * (dist / D)^2), D being b / 2
RefOpacity(mf, p, b) ==
    LET A == b * b * mf.d * mf.d
        B == 8 * Dist2(mf, p)
    IN  IF B >= A THEN 0 ELSE (MaxChannel * (A - B)) \div A

\* C16: the opacity blended for a pixel at distance dist from the exact
\* current sample, with brush diameter D, is the integer truncation of
\* 255 * max(0, 1 - 2 * (dist / D)^2): it lies in [0, 255], is 255 at
\* dist = 0, is 0 whenever 2 * dist^2 >= D^2, and is non-increasing in dist;
\* a pixel blended once on the blank bitmap holds exactly that blend.
C16_OpacityFormula ==
    [][ IsStampedMove =>
          LET mf    == ScreenToBitmap(mouse', rect, scale)
              cells == Bresenham(P0, P1)
              box   == BoxPixels(cells, brush_size)
              o     == [p \in box |-> Opacity(mf, p, brush_size)]
              vals  == { <<Dist2(mf, p), o[p]>> : p \in box }
              lim   == brush_size * mf.d
          IN  /\ brush_size >= BrushMin
              /\ \A p \in box :
                    /\ o[p] = RefOpacity(mf, p, brush_size)
                    /\ 0 <= o[p] /\ o[p] <= MaxChannel
              /\ \A u \in vals :
                    /\ u[1] = 0 => u[2] = MaxChannel
                    /\ 8 * u[1] >= lim * lim => u[2] = 0
                    /\ \A v \in vals : u[1] <= v[1] => u[2] >= v[2]
              /\ (Len(cells) = 1 /\ pixels = << >>) =>
                    \A p \in box :
                        GetPixel(pixels', p) =
                            Blend(White, RefOpacity(mf, p, brush_size))
      ]_vars

\* a stamp with D = 10 around a whole-pixel sample: the pixel of the sample
\* is black (dist = 0), some pixel is grey, and the pixel 8 to its right
\* (2 * dist^2 >= D^2) is untouched
C16_Witness ==
    /\ brush_size = 20 /\ last_mouse # None /\ ~panicked
    /\ last_mouse[1].d = 1
    /\ GetPixel(pixels, <<last_mouse[1].x, last_mouse[1].y>>)
          = <<0, 0, 0, MaxChannel>>
    /\ \E p \in DOMAIN pixels : pixels[p][1] > 0
    /\ GetPixel(pixels, <<last_mouse[1].x + 8, last_mouse[1].y>>) = White

\* C17: for the stamped segment from (128,128) to (130,128) with D = 10 the
\* on-path pixel (129,128) is blended with opacity 255 and the pixel
\* (129,123) with opacity 0, so that it stays as it was; in general every
\* cell of the walked line is blended with full opacity.
C17_SegmentExample ==
    [][ IsStampedMove =>
          LET mf    == ScreenToBitmap(mouse', rect, scale)
              cells == Bresenham(P0, P1)
          IN  /\ (brush_size = 20 /\ P0 = <<128, 128>> /\ P1 = <<130, 128>>) =>
                    /\ Opacity(mf, <<129, 128>>, brush_size) = MaxChannel
                    /\ Opacity(mf, <<129, 123>>, brush_size) = 0
                    /\ GetPixel(pixels', <<129, 123>>)
                          = GetPixel(pixels, <<129, 123>>)
              /\ \A k \in 1 .. Len(cells) :
                    Opacity(mf, cells[k], brush_size) = MaxChannel
      ]_vars

\* the cells of a line, as a set
CellSet(cells) == { cells[k] : k \in 1 .. Len(cells) }

\* C18: the line walked for a stamped move starts at P0, ends at P1, its
\* successive cells are adjacent (x and y change by at most 1 each, no cell
\* repeated), and the walk from P1 to P0 visits the same set of cells.
C18_LineWalk ==
    [][ IsStampedMove =>
          LET cells == Bresenham(P0, P1)
              n     == Len(cells)
          IN  /\ n >= 1
              /\ cells[1] = P0
              /\ cells[n] = P1
              /\ \A k \in 1 .. n - 1 :
                    /\ Abs(cells[k + 1][1] - cells[k][1]) <= 1
                    /\ Abs(cells[k + 1][2] - cells[k][2]) <= 1
                    /\ cells[k + 1] # cells[k]
              /\ CellSet(Bresenham(P1, P0)) = CellSet(cells)
      ]_vars

\* C19: after a stamped move every in-bounds cell of the line from P0 to P1
\* is darker than before the move (or was black already), however far
\* apart the two samples are.
C19_NoGaps ==
    [][ (IsStampedMove /\ ~panicked') =>
          LET cells == Bresenham(P0, P1)
          IN  \A k \in 1 .. Len(cells) :
                InBounds(cells[k]) =>
                    \/ GetPixel(pixels, cells[k])[1] = 0
                    \/ GetPixel(pixels', cells[k])[1]
                          < GetPixel(pixels, cells[k])[1]
      ]_vars

\* C20: the brush diameter D satisfies 1 <= D <= 100 in every reachable
\* state, so whenever the stamper runs: D * D is not zero and the radius
\* round(D / 2) is at least 1.
C20_BrushInRange ==
    /\ BrushMin <= brush_size /\ brush_size <= BrushMax
    /\ brush_size * brush_size # 0
    /\ Radius(brush_size) >= 1

\* the stamper has run after the brush slider was moved
C20_Witness ==
    /\ brush_size # BrushInit /\ brush_size \in BrushSliderValues
    /\ pixels # << >> /\ ~panicked

\* a pixel blended n times with the same opacity
RECURSIVE BlendTimes(_, _, _)
BlendTimes(px, opac, n) ==
    IF n = 0 THEN px ELSE BlendTimes(Blend(px, opac), opac, n - 1)

\* The visits of a stamped move, counted: the offset pairs are i, j in
\* [-2 * rad, 2 * rad), the visits run through the cells in walk order, i
\* ascending, then j ascending.  Count(p, all) is the number of visits of
\* the pixel p: all of them if all is TRUE, otherwise those made before the
\* first visit of a pixel outside the bitmap.
VisitCount(cells, rad, p, all) ==
    LET lo == -2 * rad
        hi == 2 * rad - 1
        inbox(k, q) == /\ q[1] - cells[k][1] \in lo .. hi
                       /\ q[2] - cells[k][2] \in lo .. hi
        idx(k, q) == (q[1] - cells[k][1] - lo) * (4 * rad)
                       + (q[2] - cells[k][2] - lo)
        fits(k) == /\ InBounds(<<cells[k][1] + lo, cells[k][2] + lo>>)
                   /\ InBounds(<<cells[k][1] + hi, cells[k][2] + hi>>)
        bad   == { k \in 1 .. Len(cells) : ~fits(k) }
        kstop == IF bad = {} \/ all THEN Len(cells) + 1
                 ELSE CHOOSE k \in bad : \A l \in bad : k <= l
        out   == IF kstop > Len(cells) THEN {}
                 ELSE { q \in { <<cells[kstop][1] + i, cells[kstop][2] + j>> :
                                    i \in lo .. hi, j \in lo .. hi } :
                        ~InBounds(q) }
        first == IF out = {} THEN 0
                 ELSE LET q == CHOOSE q \in out :
                                 \A r \in out : idx(kstop, q) <= idx(kstop, r)
                      IN  idx(kstop, q)
    IN  Cardinality({ k \in 1 .. Len(cells) : k < kstop /\ inbox(k, p) })
          + (IF kstop <= Len(cells) /\ inbox(kstop, p)
                /\ idx(kstop, p) < first THEN 1 ELSE 0)

\* the pixels that a stamped move can change or has changed: those close
\* enough to the sample for a positive opacity, and those that differ from
\* the fill before or after
Touched(mf, b) ==
    LET cx == Round(mf.x, mf.d)
        cy == Round(mf.y, mf.d)
        m  == (3 * b) \div 8 + 2
    IN  { p \in ((cx - m) .. (cx + m)) \X ((cy - m) .. (cy + m)) : InBounds(p) }
          \cup DOMAIN pixels \cup DOMAIN pixels'

\* the bitmap after the move holds, for every pixel, the pixel before the
\* move blended once per visit counted, each time with the opacity of its
\* distance from the exact current sample
BlendedPerVisit(all) ==
    LET mf    == ScreenToBitmap(mouse', rect, scale)
        cells == Bresenham(P0, P1)
        rad   == Round(brush_size, 4)
    IN  \A p \in Touched(mf, brush_size) :
            GetPixel(pixels', p) =
                BlendTimes(GetPixel(pixels, p),
                           RefOpacity(mf, p, brush_size),
                           VisitCount(cells, rad, p, all))

\* C21 as stated: a stamped move blends the pixels (x + i, y + j) for every
\* cell (x, y) of the line walk and every offset pair i, j in
\* [-2 * radius, 2 * radius), radius = round(D / 2), once per cell and
\* offset, each with the distance measured from the exact current sample.
C21_BlendsEveryOffset ==
    [][ IsStampedMove => BlendedPerVisit(TRUE) /\ ~panicked' ]_vars

\* What holds of every stamped move: the visits are made in order (cells in
\* walk order, i ascending, then j ascending) and every visit blends its
\* pixel, with the distance measured from the exact current sample, until
\* a visit reaches a pixel outside the bitmap: there the handler panics,
\* and the pixels visited before it stay blended.
C21_BlendsUntilOutside ==
    [][ IsStampedMove =>
          /\ BlendedPerVisit(FALSE)
          /\ panicked' =
                (\E k \in 1 .. Len(Bresenham(P0, P1)) :
                    LET c   == Bresenham(P0, P1)[k]
                        rad == Round(brush_size, 4)
                    IN  \/ ~InBounds(<<c[1] - 2 * rad, c[2] - 2 * rad>>)
                        \/ ~InBounds(<<c[1] + 2 * rad - 1, c[2] + 2 * rad - 1>>))
      ]_vars

\* a line of several cells has been stamped around a sub-pixel sample
C21_Witness ==
    /\ last_mouse # None /\ ~panicked
    /\ last_mouse[1].d > 1
    /\ Cardinality(DOMAIN pixels) > 1

\* C22: from the all-opaque-white bitmap the canvas only gets darker: every
\* pixel keeps alpha 255 and equal red, green and blue values, no channel
\* value of any pixel ever increases, and a pixel whose blend has opacity 0
\* is left as it was.
C22_OnlyDarker ==
    /\ [](\A p \in DOMAIN pixels :
            /\ pixels[p][4] = MaxChannel
            /\ pixels[p][1] = pixels[p][2] /\ pixels[p][2] = pixels[p][3])
    /\ [][ /\ \A p \in DOMAIN pixels \cup DOMAIN pixels' :
                \A c \in 1 .. 4 :
                    GetPixel(pixels', p)[c] <= GetPixel(pixels, p)[c]
          /\ IsStampedMove =>
                LET mf == ScreenToBitmap(mouse', rect, scale)
                IN  \A p \in Touched(mf, brush_size) :
                        RefOpacity(mf, p, brush_size) = 0 =>
                            GetPixel(pixels', p) = GetPixel(pixels, p)
        ]_vars

\* C23: while dragging in Move mode the canvas follows the pointer rigidly:
\* after every cursor-move handled with selected = true the rectangle's
\* centre is the pointer position minus the offset recorded at the press
\* (pointer minus centre at press time), and the move changes neither the
\* rectangle's size nor the offset, so the point grabbed stays under the
\* pointer.
C23_DragIsRigid ==
    [][ /\ (IsCursorMoved /\ mode = "Move" /\ selected) =>
              /\ <<rect'.x, rect'.y>>
                    = <<mouse'[1] - offset[1], mouse'[2] - offset[2]>>
              /\ <<rect'.w, rect'.h>> = <<rect.w, rect.h>>
              /\ <<mouse'[1] - rect'.x, mouse'[2] - rect'.y>> = offset'
        /\ MouseInputPressed =>
              offset' = <<mouse[1] - rect.x, mouse[2] - rect.y>>
        /\ offset' # offset => IsMouseInput
      ]_vars

\* the canvas was grabbed off its centre and dragged
C23_Witness ==
    /\ mode = "Move" /\ selected
    /\ offset # <<0, 0>>
    /\ <<rect.x, rect.y>> # <<0, 0>>
    /\ <<mouse[1] - rect.x, mouse[2] - rect.y>> = offset

\* C24: an active stroke survives leaving the canvas.  A Paint-mode
\* cursor-move outside the rectangle keeps last_sample; the next cursor-move
\* inside the rectangle during the same press runs the stamper on the
\* segment from that sample, the last one taken inside, to the re-entry
\* point.  The sample held was always taken during the press still active:
\* every press and every release clears it, a sample is taken only by a
\* cursor-move with the button held, and the bitmap changes only while the
\* button is held and a sample is held.
C24_StrokeSurvivesLeaving ==
    [][ /\ (IsCursorMoved /\ mode = "Paint" /\ ~Inside(mouse')) =>
              UNCHANGED <<last_mouse, selected, pixels>>
        /\ (IsCursorMoved /\ mode = "Paint" /\ selected /\ last_mouse # None
               /\ ~Inside(mouse) /\ Inside(mouse')) =>
              LET mf == ScreenToBitmap(mouse', rect, scale)
                  r  == Stamp(pixels, last_mouse[1], mf, brush_size)
              IN  /\ Bresenham(P0, P1)[1] = TruncatedSample(last_mouse[1])
                  /\ pixels' = r.pix
                  /\ r.ok => last_mouse' = Some(mf)
        /\ IsMouseInput => last_mouse' = None
        /\ (last_mouse' # None /\ last_mouse' # last_mouse) =>
              IsCursorMoved /\ selected /\ selected'
        /\ pixels' # pixels =>
              IsCursorMoved /\ selected /\ selected' /\ last_mouse # None
      ]_vars

\* a stroke that has painted has left the rectangle, the button still held:
\* the last sample taken inside is held
C24_Witness ==
    /\ mode = "Paint" /\ selected /\ ~panicked
    /\ ~Inside(mouse)
    /\ last_mouse # None /\ pixels # << >>

====
